---- MODULE Spec2Model ----
(***************************************************************************)
(* A model of whatsapp_analyzer.py: the forward pass of main over the      *)
(* classified chat lines (date window, aggregation into chat_counter), the *)
(* reduction of every category into a ranked table, and the rendering of   *)
(* the report (bar charts with their "Other" line, calendar heatmap).      *)
(* The nested functions of main are operators of the same name; each is    *)
(* also exercised on its own under a specification that draws its input.   *)
(***************************************************************************)
EXTENDS Integers, Sequences, FiniteSets, TLC

\* Python's None, where the value is otherwise a tuple or a list (a datetime, a
\* date argument, a sender, the list of modes): the empty tuple.
None == <<>>

(***************************************************************************)
(* Bounds of the model.                                                    *)
(***************************************************************************)
\* Lines in the chat file.
MaxLines == 2

\* Calendar days the timestamps fall on: 0 .. MaxDay (day 0 is a Monday).
MaxDay == 2

\* --startDate / --endDate are absent or one of the days 1 .. MaxArgDay.
MaxArgDay == 1

\* --size is one of 0 .. MaxSize.
MaxSize == 1

\* Length of the list handed to reduce_and_sort on its own.
MaxData == 4

\* Length of a word, and of the list of (sender, word) pairs, handed to the word
\* reductions on their own.
MaxWordLen == 2

MaxWordList == 2

\* Entries of the table handed to printBarChart on its own, and their counts.
MaxBars == 3

MaxCount == 10

\* Counts of the cells handed to printCalendar on its own.
MaxCellCount == 10

(***************************************************************************)
(* Python floats.  printBar divides with "/", which is IEEE-754 binary64   *)
(* division, round-to-nearest-even.  A positive float is [m, e]: m is the  *)
(* 53-bit significand held in two limbs <<hi, lo>> of 27 bits (the value   *)
(* of m is hi * 2^27 + lo, 2^52 <= m < 2^53), and the float is             *)
(* m * 2^(e - 52).                                                         *)
(***************************************************************************)
LimbBits == 27

Limb == 2 ^ LimbBits

MantissaBits == 53

\* Bits of the high limb of a significand.
HiBits == MantissaBits - LimbBits

Dbl(x) == <<2 * x[1] + ((2 * x[2]) \div Limb), (2 * x[2]) % Limb>>

Geq(x, y) == x[1] > y[1] \/ (x[1] = y[1] /\ x[2] >= y[2])

Sub(x, y) ==
    IF x[2] >= y[2] THEN <<x[1] - y[1], x[2] - y[2]>>
    ELSE <<x[1] - y[1] - 1, x[2] + Limb - y[2]>>

Inc(x) == IF x[2] + 1 = Limb THEN <<x[1] + 1, 0>> ELSE <<x[1], x[2] + 1>>

RECURSIVE Log2(_)
Log2(n) == IF n < 2 THEN 0 ELSE 1 + Log2(n \div 2)

\* float(n) for an int 1 <= n < 2^HiBits: exact.
FromInt(n) ==
    LET e == Log2(n) IN [m |-> <<n * 2 ^ (HiBits - 1 - e), 0>>, e |-> e]

\* Restoring division: quotient bits of rem / d (d <= rem < 2d at the start) are
\* appended to q until the significand is full.
RECURSIVE DivBits(_, _, _)
DivBits(rem, d, q) ==
    IF q[1] >= 2 ^ (HiBits - 1) THEN <<q, rem>>
    ELSE IF Geq(rem, d)
         THEN DivBits(Dbl(Sub(rem, d)), d, Inc(Dbl(q)))
         ELSE DivBits(Dbl(rem), d, Dbl(q))

\* x / y for positive floats: 53 quotient bits, then the round bit and the
\* sticky rest decide round-to-nearest, ties to even.
FDiv(x, y) ==
    LET big  == Geq(x.m, y.m)
        e    == x.e - y.e - (IF big THEN 0 ELSE 1)
        qr   == DivBits(IF big THEN x.m ELSE Dbl(x.m), y.m, <<0, 0>>)
        q    == qr[1]
        rem  == qr[2]
        rbit == Geq(rem, y.m)
        rest == IF rbit THEN Sub(rem, y.m) ELSE rem
        up   == rbit /\ (rest # <<0, 0>> \/ q[2] % 2 = 1)
        r    == IF up THEN Inc(q) ELSE q
    IN  IF r[1] = 2 ^ HiBits
        THEN [m |-> <<2 ^ (HiBits - 1), 0>>, e |-> e + 1]
        ELSE [m |-> r, e |-> e]

\* int(x) for a positive float below 2^31: truncation.
ToInt(x) ==
    IF x.e < 0 THEN 0
    ELSE IF x.e <= HiBits - 1 THEN x.m[1] \div 2 ^ (HiBits - 1 - x.e)
    ELSE x.m[1] * 2 ^ (x.e - (HiBits - 1)) + x.m[2] \div 2 ^ (MantissaBits - 1 - x.e)

\* printBar's filledLength = int(value / (total / length)), total not 0.
filledLength(value, total, length) ==
    IF value = 0 THEN 0
    ELSE ToInt(FDiv(FromInt(value), FDiv(FromInt(total), FromInt(length))))

(***************************************************************************)
(* datetime values.  A datetime is <<day, second, microsecond>>, the way   *)
(* Python's datetime arithmetic normalises it; dateutil.parser.parse of a  *)
(* calendar date is that day's midnight.                                   *)
(***************************************************************************)
SecondsPerDay == 86400

MicrosPerSecond == 1000000

SecondsPerHour == 3600

\* dateutil.parser.parse(date): a date argument is <<day>>.
parse(date) == <<date[1], 0, 0>>

\* t + datetime.timedelta(days, microseconds)
timedelta_add(t, days, microseconds) ==
    LET us == t[3] + microseconds
        s  == t[2] + (us \div MicrosPerSecond)
    IN  <<t[1] + days + (s \div SecondsPerDay), s % SecondsPerDay, us % MicrosPerSecond>>

\* a < b on datetimes
dt_lt(a, b) ==
    \/ a[1] < b[1]
    \/ a[1] = b[1] /\ a[2] < b[2]
    \/ a[1] = b[1] /\ a[2] = b[2] /\ a[3] < b[3]

days == <<"Monday", "Tuesday", "Wednesday", "Thursday", "Friday", "Saturday", "Sunday">>

HoursPerDay == 24

hours == [x \in 1..HoursPerDay |->
            IF Len(ToString(x - 1)) < 2 THEN "0" \o ToString(x - 1) ELSE ToString(x - 1)]

\* (x.strftime('%A'), x.strftime('%H'))
strftime_A_H(x) == <<days[(x[1] % Len(days)) + 1], hours[(x[2] \div SecondsPerHour) + 1]>>

(***************************************************************************)
(* Characters and words.  A word is a tuple of characters; a character is  *)
(* a one-character string, "1/2" standing for the vulgar fraction U+00BD   *)
(* (numeric and alphanumeric for Python, but neither a digit nor decimal). *)
(***************************************************************************)
LowerLetters == {"h", "i"}

UpperLetters == {"H", "I"}

DecimalDigits == {"4", "2"}

OtherNumerics == {"1/2"}

Punctuation == {"!"}

Alphabet == LowerLetters \cup UpperLetters \cup DecimalDigits \cup OtherNumerics \cup Punctuation

char_lower(c) == CASE c = "H" -> "h" [] c = "I" -> "i" [] OTHER -> c

\* w.lower()
lower(w) == [k \in 1..Len(w) |-> char_lower(w[k])]

\* w.isalnum(): at least one character, every one a letter or numeric
isalnum(w) ==
    /\ Len(w) > 0
    /\ \A k \in 1..Len(w) :
          w[k] \in LowerLetters \cup UpperLetters \cup DecimalDigits \cup OtherNumerics

\* w.isnumeric(): at least one character, every one numeric
isnumeric(w) ==
    Len(w) > 0 /\ \A k \in 1..Len(w) : w[k] \in DecimalDigits \cup OtherNumerics

(***************************************************************************)
(* REDUCE AND ORDER DATA.  A Python list is a sequence, a tuple (a, b) is  *)
(* <<a, b>> (x[0] is x[1] here, x[1] is x[2]), and a dict or Counter is    *)
(* the sequence of its (key, value) items in insertion order.              *)
(***************************************************************************)
RECURSIVE SumCounts(_)
SumCounts(table) ==
    IF table = <<>> THEN 0 ELSE table[1][2] + SumCounts(Tail(table))

\* A plausible slip: a repeated element leaves its item as it is.
counter_add_once(items, x) ==
    IF \E k \in 1..Len(items) : items[k][1] = x THEN items ELSE Append(items, <<x, 1>>)

\* Counter(data): every element in turn either bumps its item or, when new, is
\* appended with count 1, so the items stand in order of first appearance.
counter_add(items, x) ==
    IF \E k \in 1..Len(items) : items[k][1] = x
    THEN [k \in 1..Len(items) |->
            IF items[k][1] = x THEN <<x, items[k][2] + 1>> ELSE items[k]]
    ELSE Append(items, <<x, 1>>)

RECURSIVE Counter(_)
Counter(data) ==
    IF data = <<>> THEN <<>>
    ELSE counter_add(Counter(SubSeq(data, 1, Len(data) - 1)), data[Len(data)])

\* A plausible slip: ties in the reverse of their arrival order (what sorting
\* ascending and reversing the result would give).
SortPositionTiesReversed(placed, x) ==
    Cardinality({k \in 1..Len(placed) : placed[k][2] > x[2]})

\* Where sorted(..., key=lambda x: x[1], reverse=True) puts item x among the
\* items already placed: after every item whose count is at least x's (the sort is
\* stable, reverse=True included).
SortPosition(placed, x) == Cardinality({k \in 1..Len(placed) : placed[k][2] >= x[2]})

RECURSIVE sorted_by_count_desc(_)
sorted_by_count_desc(items) ==
    IF items = <<>> THEN <<>>
    ELSE LET placed == sorted_by_count_desc(SubSeq(items, 1, Len(items) - 1))
             x      == items[Len(items)]
             p      == SortPosition(placed, x)
         IN  SubSeq(placed, 1, p) \o <<x>> \o SubSeq(placed, p + 1, Len(placed))

reduce_and_sort(data) == sorted_by_count_desc(Counter(data))

filter_single_word(w, stop_words) ==
    /\ Len(w) > 1
    /\ isalnum(w)
    /\ ~ isnumeric(w)
    /\ lower(w) \notin stop_words

reduce_and_filter_words(list_of_words, stop_words) ==
    LET kept == SelectSeq(list_of_words, LAMBDA w : filter_single_word(w, stop_words))
    IN  [k \in 1..Len(kept) |-> lower(kept[k])]

\* reduce_and_sort(reduce_and_filter_words(chat_counter['words']))
words_table(words, stop_words) ==
    reduce_and_sort(reduce_and_filter_words(words, stop_words))

\* reduce_and_sort([x for x in chat_counter['fav_word'] if filter_single_word(x[1])])
fav_word_ranking(fav_word, stop_words) ==
    reduce_and_sort(SelectSeq(fav_word, LAMBDA x : filter_single_word(x[2], stop_words)))

\* The loop of reduce_fav_item from item k on, with the senders seen so far.
RECURSIVE fav_loop(_, _, _, _)
fav_loop(data, k, exist, arr) ==
    IF k > Len(data) THEN arr
    ELSE IF data[k][2] > 0 /\ data[k][1][1] \notin exist
         THEN fav_loop(data, k + 1, exist \cup {data[k][1][1]}, Append(arr, data[k]))
         ELSE fav_loop(data, k + 1, exist, arr)

\* A plausible slip: the test on the item (i[0][1]) instead of the sender.
RECURSIVE fav_loop_by_item(_, _, _, _)
fav_loop_by_item(data, k, exist, arr) ==
    IF k > Len(data) THEN arr
    ELSE IF data[k][2] > 0 /\ data[k][1][2] \notin exist
         THEN fav_loop_by_item(data, k + 1, exist \cup {data[k][1][2]}, Append(arr, data[k]))
         ELSE fav_loop_by_item(data, k + 1, exist, arr)

reduce_fav_item_by_item(data) == fav_loop_by_item(data, 1, {}, <<>>)

reduce_fav_item(data) == fav_loop(data, 1, {}, <<>>)

(***************************************************************************)
(* VISUALIZE.  What is printed is a sequence of lines; only what the       *)
(* arithmetic decides is kept of each (a bar is its label, its number of   *)
(* filled cells and its value; colours and label padding are left out).    *)
(***************************************************************************)
BarLength == 50

\* The line of one bar; a total of 0 makes total / length 0.0, and the division
\* by it raises ZeroDivisionError.
printBar(value, total, length, label) ==
    IF total = 0 THEN <<"ZeroDivisionError">>
    ELSE <<"bar", label, filledLength(value, total, length), value>>

RECURSIVE SeqMax(_)
SeqMax(s) ==
    IF Len(s) = 1 THEN s[1]
    ELSE LET m == SeqMax(Tail(s)) IN IF s[1] >= m THEN s[1] ELSE m

printBarChart(data) ==
    IF Len(data) <= 0 THEN << <<"Empty data">> >>
    ELSE LET total == SeqMax([k \in 1..Len(data) |-> data[k][2]])
         IN  [k \in 1..Len(data) |-> printBar(data[k][2], total, BarLength, data[k][1])]

\* data[:n] and data[n:] for n >= 0
slice_to(data, n) == SubSeq(data, 1, IF n < Len(data) THEN n ELSE Len(data))

slice_from(data, n) == SubSeq(data, n + 1, Len(data))

\* dict(data) for a table: a function from its keys.
dict(table) ==
    [key \in {table[k][1] : k \in 1..Len(table)} |->
        LET k == CHOOSE k \in 1..Len(table) : table[k][1] = key IN table[k][2]]

\* A plausible slip: >= instead of >.
calendar_tick_inclusive(data, max_val, dict_key) ==
    IF dict_key \in DOMAIN data THEN
        IF 4 * data[dict_key] >= 3 * max_val THEN "red"
        ELSE IF 4 * data[dict_key] >= 2 * max_val THEN "orange"
        ELSE IF 4 * data[dict_key] >= 1 * max_val THEN "green"
        ELSE "light_grey"
    ELSE "white"

\* The tick of one cell.  max_val is a float and the ticks are 0.25, 0.50 and
\* 0.75 times it, all exact in binary64 for any count below 2^51, so
\* data[key] > ticks[j] is the integer comparison 4 * data[key] > j * max_val.
\* The ticks are named by their colours: red (the highest), orange, green,
\* light_grey (the lowest), and white for a cell without data.
calendar_tick(data, max_val, dict_key) ==
    IF dict_key \in DOMAIN data THEN
        IF 4 * data[dict_key] > 3 * max_val THEN "red"
        ELSE IF 4 * data[dict_key] > 2 * max_val THEN "orange"
        ELSE IF 4 * data[dict_key] > 1 * max_val THEN "green"
        ELSE "light_grey"
    ELSE "white"

\* The grid printCalendar writes: one row per hour, one tick per day.
printCalendar(data) ==
    LET max_val == IF DOMAIN data # {}
                   THEN CHOOSE m \in {data[k] : k \in DOMAIN data} :
                            \A k \in DOMAIN data : data[k] <= m
                   ELSE 0
    IN  [h \in 1..Len(hours) |->
            [d \in 1..Len(days) |-> calendar_tick(data, max_val, <<days[d], hours[h]>>)]]

(***************************************************************************)
(* The classified lines.  Chatline (chatline.py) is not part of the        *)
(* analysed file: what it returns for a line is an input, drawn from       *)
(* Chatlines.  A sender is a tuple of characters like a word.              *)
(***************************************************************************)
Senders == {<<"A">>, <<"B">>}

Hi == <<"H", "i">>

hi == <<"h", "i">>

FortyTwo == <<"4", "2">>

\* The instants either side of every midnight of days 0 .. MaxDay.
Timestamps ==
    UNION {{<<d, SecondsPerDay - 1, MicrosPerSecond - 1>>, <<d + 1, 0, 0>>} : d \in 0..(MaxDay - 1)}

Chatline(line_type, timestamp, sender, is_deleted_chat, words, emojis, domains) ==
    [line_type |-> line_type, timestamp |-> timestamp, sender |-> sender,
     is_deleted_chat |-> is_deleted_chat, words |-> words, emojis |-> emojis,
     domains |-> domains]

\* Every timestamp (or none) with every sender (or none), one word; one instant
\* with every content; deleted chats.
Chatlines ==
    {Chatline(IF s = None THEN "Event" ELSE "Chat", t, s, FALSE, <<hi>>, <<>>, <<>>) :
        t \in Timestamps \cup {None}, s \in Senders \cup {None}}
    \cup
    {Chatline(IF x[1] = None THEN "Other" ELSE "Chat", <<1, 0, 0>>, x[1], FALSE, x[2], x[3], x[4]) :
        x \in (Senders \cup {None}) \X {<<>>, <<hi>>, <<Hi, FortyTwo>>}
              \X {<<>>, <<":grin:">>} \X {<<>>, <<"example.com">>}}
    \cup
    {Chatline("Chat", <<1, 0, 0>>, s, TRUE, <<>>, <<>>, <<>>) : s \in Senders}

DateArgs == {None} \cup {<<d>> : d \in 1..MaxArgDay}

Modes == {None, <<"emoji", "word">>}

StopWordLists == {{}, {hi}}

Args == [startDate : DateArgs, endDate : DateArgs, size : 0..MaxSize, mode : Modes]

(***************************************************************************)
(* State.  pc is where main stands: "loop" (the for loop over lines),      *)
(* "reduce", "report", "done", or "TypeError" (the uncaught exception of a *)
(* comparison of None with a datetime).  lines is the number of lines not  *)
(* yet read.  data and result are the argument and the return value of a   *)
(* nested function called on its own (pc "call", then "returned").         *)
(***************************************************************************)
VARIABLES pc, lines, args, start_date, end_date, stop_words, previous_line,
          chat_counter, stdout, data, result

vars == <<pc, lines, args, start_date, end_date, stop_words, previous_line,
          chat_counter, stdout, data, result>>

main_vars == <<lines, args, start_date, end_date, stop_words, previous_line,
               chat_counter, stdout>>

chat_counter_init ==
    [chat_count |-> 0, deleted_chat_count |-> 0, event_count |-> 0,
     senders |-> <<>>, timestamps |-> <<>>, words |-> <<>>, domains |-> <<>>,
     emojis |-> <<>>, fav_emoji |-> <<>>, fav_word |-> <<>>]

\* main up to the for loop: arguments parsed, files read, the window computed.
Init ==
    /\ pc = "loop"
    /\ lines \in 0..MaxLines
    /\ args \in Args
    /\ stop_words \in StopWordLists
    /\ start_date = IF args.startDate # None THEN parse(args.startDate) ELSE None
    /\ end_date = IF args.endDate # None
                  THEN timedelta_add(parse(args.endDate), 1, -1) ELSE None
    /\ previous_line = None
    /\ chat_counter = chat_counter_init
    /\ stdout = <<>>
    /\ data = None
    /\ result = None

\* The two comparisons of the loop's head; either raises on a timestamp of None.
raises_TypeError(chatline) ==
    chatline.timestamp = None /\ (start_date # None \/ end_date # None)

before_start(chatline) == start_date # None /\ dt_lt(chatline.timestamp, start_date)

after_end(chatline) == end_date # None /\ ~ dt_lt(chatline.timestamp, end_date)

\* A plausible slip: the words, emojis and domains extended inside
\* "if chatline.sender is not None".
count_line_sender_only(cc, chatline) ==
    LET with_sender == chatline.sender # None
        pairs(xs)   == [k \in 1..Len(xs) |-> <<chatline.sender, xs[k]>>]
    IN  [chat_count |-> cc.chat_count + (IF chatline.line_type = "Chat" THEN 1 ELSE 0),
         event_count |-> cc.event_count + (IF chatline.line_type = "Event" THEN 1 ELSE 0),
         deleted_chat_count |-> cc.deleted_chat_count + (IF chatline.is_deleted_chat THEN 1 ELSE 0),
         senders |-> IF with_sender THEN Append(cc.senders, chatline.sender) ELSE cc.senders,
         fav_emoji |-> IF with_sender THEN cc.fav_emoji \o pairs(chatline.emojis) ELSE cc.fav_emoji,
         fav_word |-> IF with_sender THEN cc.fav_word \o pairs(chatline.words) ELSE cc.fav_word,
         timestamps |-> IF chatline.timestamp # None
                        THEN Append(cc.timestamps, chatline.timestamp) ELSE cc.timestamps,
         words |-> IF with_sender THEN cc.words \o chatline.words ELSE cc.words,
         emojis |-> IF with_sender THEN cc.emojis \o chatline.emojis ELSE cc.emojis,
         domains |-> IF with_sender THEN cc.domains \o chatline.domains ELSE cc.domains]

\* The body of the loop below the two "continue"s.
count_line(cc, chatline) ==
    LET with_sender == chatline.sender # None
        pairs(xs)   == [k \in 1..Len(xs) |-> <<chatline.sender, xs[k]>>]
    IN  [chat_count |-> cc.chat_count + (IF chatline.line_type = "Chat" THEN 1 ELSE 0),
         event_count |-> cc.event_count + (IF chatline.line_type = "Event" THEN 1 ELSE 0),
         deleted_chat_count |-> cc.deleted_chat_count + (IF chatline.is_deleted_chat THEN 1 ELSE 0),
         senders |-> IF with_sender THEN Append(cc.senders, chatline.sender) ELSE cc.senders,
         fav_emoji |-> IF with_sender THEN cc.fav_emoji \o pairs(chatline.emojis) ELSE cc.fav_emoji,
         fav_word |-> IF with_sender THEN cc.fav_word \o pairs(chatline.words) ELSE cc.fav_word,
         timestamps |-> IF chatline.timestamp # None
                        THEN Append(cc.timestamps, chatline.timestamp) ELSE cc.timestamps,
         words |-> cc.words \o chatline.words,
         emojis |-> cc.emojis \o chatline.emojis,
         domains |-> cc.domains \o chatline.domains]

\* One iteration of "for line in lines".
LoopStep(chatline) ==
    /\ pc = "loop"
    /\ lines > 0
    /\ lines' = lines - 1
    /\ previous_line' = chatline
    /\ IF raises_TypeError(chatline)
       THEN pc' = "TypeError" /\ UNCHANGED chat_counter
       ELSE /\ pc' = "loop"
            /\ IF before_start(chatline) \/ after_end(chatline)
               THEN UNCHANGED chat_counter
               ELSE chat_counter' = count_line(chat_counter, chatline)
    /\ UNCHANGED <<args, start_date, end_date, stop_words, stdout, data, result>>

\* The end of the loop.
LoopEnd ==
    /\ pc = "loop"
    /\ lines = 0
    /\ pc' = "reduce"
    /\ UNCHANGED <<main_vars, data, result>>

\* REDUCE AND ORDER DATA: every category replaced by its table.
Reduce ==
    /\ pc = "reduce"
    /\ chat_counter' =
         [chat_counter EXCEPT
            !.senders = reduce_and_sort(@),
            !.words = words_table(@, stop_words),
            !.domains = reduce_and_sort(@),
            !.emojis = reduce_and_sort(@),
            !.timestamps = reduce_and_sort([k \in 1..Len(@) |-> strftime_A_H(@[k])]),
            !.fav_emoji = reduce_fav_item(reduce_and_sort(@)),
            !.fav_word = reduce_fav_item(fav_word_ranking(@, stop_words))]
    /\ pc' = "report"
    /\ UNCHANGED <<lines, args, start_date, end_date, stop_words, previous_line, stdout,
                   data, result>>

(***************************************************************************)
(* The report.  Every line of stdout is <<section, kind, ...>>.            *)
(***************************************************************************)
in_mode(name) == args.mode = None \/ \E k \in 1..Len(args.mode) : args.mode[k] = name

tagged(section, out) == [k \in 1..Len(out) |-> <<section>> \o out[k]]

summary(table) == << <<"summary", Len(table), SumCounts(table)>> >>

\* if len(data) > args.size: print("Other ... {} | {}")
other_line(table, size) ==
    IF Len(table) > size
    THEN << <<"Other", Len(slice_from(table, size)), SumCounts(slice_from(table, size))>> >>
    ELSE <<>>

\* Senders, domains, emojis and words: the totals, the bars of the first
\* args.size entries, the "Other" line.
ranked_section(section, table, size) ==
    tagged(section, summary(table) \o printBarChart(slice_to(table, size)) \o other_line(table, size))

\* Favorite emoji and favorite word by member: the bars alone.
favorite_section(section, table, size) ==
    tagged(section, printBarChart(slice_to(table, size)))

\* Chat Activity Heatmap: the busiest and the most silent cell, then the calendar.
heatmap_section(table) ==
    tagged("activity",
           (IF Len(table) > 0
            THEN << <<"Most Busy", table[1]>>, <<"Most Silence", table[Len(table)]>> >>
            ELSE <<>>)
           \o << <<"calendar", printCalendar(dict(table))>> >>)

\* VISUALIZE: the sections of the selected modes, in the order main prints them.
Report ==
    /\ pc = "report"
    /\ stdout' =
         (IF in_mode("chat")
          THEN ranked_section("senders", chat_counter.senders, args.size) ELSE <<>>)
         \o (IF in_mode("url")
             THEN ranked_section("domains", chat_counter.domains, args.size) ELSE <<>>)
         \o (IF in_mode("emoji")
             THEN ranked_section("emojis", chat_counter.emojis, args.size)
                  \o favorite_section("fav_emoji", chat_counter.fav_emoji, args.size)
             ELSE <<>>)
         \o (IF in_mode("word")
             THEN ranked_section("words", chat_counter.words, args.size)
                  \o favorite_section("fav_word", chat_counter.fav_word, args.size)
             ELSE <<>>)
         \o (IF in_mode("activity") THEN heatmap_section(chat_counter.timestamps) ELSE <<>>)
    /\ pc' = "done"
    /\ UNCHANGED <<lines, args, start_date, end_date, stop_words, previous_line,
                   chat_counter, data, result>>

Next ==
    \/ \E chatline \in Chatlines : LoopStep(chatline)
    \/ LoopEnd
    \/ Reduce
    \/ Report

Spec == Init /\ [][Next]_vars

(***************************************************************************)
(* The nested functions on their own: the argument is drawn, the function  *)
(* is called, its return value kept.                                       *)
(***************************************************************************)
SeqsUpTo(S, n) == UNION {[1..k -> S] : k \in 0..n}

main_idle ==
    /\ lines = 0
    /\ args = [startDate |-> None, endDate |-> None, size |-> 0, mode |-> None]
    /\ start_date = None
    /\ end_date = None
    /\ previous_line = None
    /\ chat_counter = chat_counter_init
    /\ stdout = <<>>

\* reduce_and_sort, then reduce_fav_item on its result, as for fav_emoji.
Pairs == Senders \X {":grin:", ":+1:"}

InitRank ==
    /\ pc = "call"
    /\ data \in SeqsUpTo(Pairs, MaxData)
    /\ result = None
    /\ stop_words = {}
    /\ main_idle

CallReduceAndSort ==
    /\ pc = "call"
    /\ result' = reduce_and_sort(data)
    /\ pc' = "ranked"
    /\ UNCHANGED <<main_vars, data>>

CallReduceFavItem ==
    /\ pc = "ranked"
    /\ data' = result
    /\ result' = reduce_fav_item(result)
    /\ pc' = "returned"
    /\ UNCHANGED main_vars

NextRank == CallReduceAndSort \/ CallReduceFavItem

SpecRank == InitRank /\ [][NextRank]_vars

\* The two word reductions of main on the same (sender, word) pairs.
WordsUpTo(n) == UNION {[1..k -> Alphabet] : k \in 1..n}

InitWords ==
    /\ pc = "call"
    /\ data \in SeqsUpTo(Senders \X WordsUpTo(MaxWordLen), MaxWordList)
    /\ result = None
    /\ stop_words \in StopWordLists
    /\ main_idle

CallWordReductions ==
    /\ pc = "call"
    /\ result' = [words |-> words_table([k \in 1..Len(data) |-> data[k][2]], stop_words),
                  fav_word_ranking |-> fav_word_ranking(data, stop_words),
                  fav_word |-> reduce_fav_item(fav_word_ranking(data, stop_words))]
    /\ pc' = "returned"
    /\ UNCHANGED <<main_vars, data>>

SpecWords == InitWords /\ [][CallWordReductions]_vars

\* printBarChart on a ranked table already cut to the sample size.
Labels == <<"A", "B", "C", "D">>

BarTables ==
    {t \in UNION {[1..k -> 1..MaxCount] : k \in 0..MaxBars} :
        \A k \in 1..(Len(t) - 1) : t[k] >= t[k + 1]}

InitBar ==
    /\ pc = "call"
    /\ \E t \in BarTables : data = [k \in 1..Len(t) |-> <<Labels[k], t[k]>>]
    /\ result = None
    /\ stop_words = {}
    /\ main_idle

CallPrintBarChart ==
    /\ pc = "call"
    /\ result' = printBarChart(data)
    /\ pc' = "returned"
    /\ UNCHANGED <<main_vars, data>>

SpecBar == InitBar /\ [][CallPrintBarChart]_vars

\* printCalendar on a dict of some cells.
Cells == {<<"Monday", "00">>, <<"Wednesday", "09">>, <<"Sunday", "23">>}

InitCalendar ==
    /\ pc = "call"
    /\ data \in UNION {[S -> 1..MaxCellCount] : S \in SUBSET Cells}
    /\ result = None
    /\ stop_words = {}
    /\ main_idle

CallPrintCalendar ==
    /\ pc = "call"
    /\ result' = printCalendar(data)
    /\ pc' = "returned"
    /\ UNCHANGED <<main_vars, data>>

SpecCalendar == InitCalendar /\ [][CallPrintCalendar]_vars

\* The forward pass alone: the loop over the lines under every date window, the
\* arguments the loop does not read held at one value.
InitPass ==
    /\ Init
    /\ args.size = 0
    /\ args.mode = None
    /\ stop_words = {}

NextPass == \E chatline \in Chatlines : LoopStep(chatline)

SpecPass == InitPass /\ [][NextPass]_vars

\* The reduction alone: main stands after the loop with one category collected
\* (lines that carried nothing else), and reduces.
Collected ==
    {[chat_counter_init EXCEPT !.senders = x, !.chat_count = Len(x)] :
        x \in SeqsUpTo(Senders, MaxData)}
    \cup {[chat_counter_init EXCEPT !.words = x] : x \in SeqsUpTo({Hi, hi, FortyTwo}, MaxData)}
    \cup {[chat_counter_init EXCEPT !.emojis = x] : x \in SeqsUpTo({":grin:", ":+1:"}, MaxData)}
    \cup {[chat_counter_init EXCEPT !.domains = x] :
            x \in SeqsUpTo({"example.com", "example.org"}, MaxData)}
    \cup {[chat_counter_init EXCEPT !.timestamps = x] : x \in SeqsUpTo(Timestamps, MaxData)}

InitReduce ==
    /\ pc = "reduce"
    /\ lines = 0
    /\ args = [startDate |-> None, endDate |-> None, size |-> 0, mode |-> None]
    /\ start_date = None
    /\ end_date = None
    /\ stop_words \in StopWordLists
    /\ previous_line = None
    /\ chat_counter \in Collected
    /\ stdout = <<>>
    /\ data = None
    /\ result = None

SpecReduce == InitReduce /\ [][Reduce]_vars

(***************************************************************************)
(* The claims.                                                             *)
(***************************************************************************)
Range(s) == {s[k] : k \in 1..Len(s)}

FirstIndex(s, x) == CHOOSE k \in 1..Len(s) : s[k] = x /\ \A j \in 1..(k - 1) : s[j] # x

HowMany(s, x) == Cardinality({k \in 1..Len(s) : s[k] = x})

\* The count a table gives a key, 0 when the key is not in it.
TableCount(table, key) ==
    IF \E k \in 1..Len(table) : table[k][1] = key
    THEN table[CHOOSE k \in 1..Len(table) : table[k][1] = key][2]
    ELSE 0

TableKeys(table) == {table[k][1] : k \in 1..Len(table)}

\* The window of the Date Filter as the contract states it, from the arguments:
\* t >= startDate (when given) and t < endDate + 1 day (when given).
InWindow(t) ==
    /\ args.startDate = None \/ ~ dt_lt(t, <<args.startDate[1], 0, 0>>)
    /\ args.endDate = None \/ dt_lt(t, <<args.endDate[1] + 1, 0, 0>>)

\* An iteration of the forward pass has just classified previous_line'.
LineRead == pc = "loop" /\ lines' = lines - 1

\* What the aggregator is to do with a record r: the counters by line type, the
\* sender and its pairs only under a sender, words, emojis and domains always, the
\* timestamp when present; everything appended in arrival order.
Aggregated(cc, cc2, r) ==
    /\ cc2.chat_count = cc.chat_count + (IF r.line_type = "Chat" THEN 1 ELSE 0)
    /\ cc2.event_count = cc.event_count + (IF r.line_type = "Event" THEN 1 ELSE 0)
    /\ cc2.deleted_chat_count = cc.deleted_chat_count + (IF r.is_deleted_chat THEN 1 ELSE 0)
    /\ cc2.words = cc.words \o r.words
    /\ cc2.emojis = cc.emojis \o r.emojis
    /\ cc2.domains = cc.domains \o r.domains
    /\ cc2.timestamps = cc.timestamps \o (IF r.timestamp = None THEN <<>> ELSE <<r.timestamp>>)
    /\ IF r.sender = None
       THEN /\ cc2.senders = cc.senders
            /\ cc2.fav_emoji = cc.fav_emoji
            /\ cc2.fav_word = cc.fav_word
       ELSE /\ cc2.senders = Append(cc.senders, r.sender)
            /\ cc2.fav_emoji = cc.fav_emoji \o [k \in 1..Len(r.emojis) |-> <<r.sender, r.emojis[k]>>]
            /\ cc2.fav_word = cc.fav_word \o [k \in 1..Len(r.words) |-> <<r.sender, r.words[k]>>]

\* C1: Date Filter.  A record with a timestamp t is aggregated if and only if
\* t >= startDate (when given) and t < endDate + 1 day (when given), the last
\* microsecond of the endDate day included.
C1_AggregatedIffInWindow ==
    [][(LineRead /\ previous_line'.timestamp # None)
         => (Aggregated(chat_counter, chat_counter', previous_line')
               <=> InWindow(previous_line'.timestamp))]_vars

\* C2: a record without a timestamp is never excluded by the Date Filter, is
\* aggregated whatever startDate and endDate are, and never aborts the pass.
C2_NoTimestampIsAggregated ==
    [][(LineRead /\ previous_line'.timestamp = None)
         => (pc' = "loop" /\ Aggregated(chat_counter, chat_counter', previous_line'))]_vars

\* C3: reduce_and_sort lists every distinct key once with its number of
\* occurrences, by count descending, equal counts in order of first appearance.
C3_RankByCountThenArrival ==
    pc = "ranked" =>
        /\ \A x \in Range(data) : Cardinality({k \in 1..Len(result) : result[k][1] = x}) = 1
        /\ \A k \in 1..Len(result) :
              result[k][1] \in Range(data) /\ result[k][2] = HowMany(data, result[k][1])
        /\ \A i, j \in 1..Len(result) :
              i < j => \/ result[i][2] > result[j][2]
                       \/ /\ result[i][2] = result[j][2]
                          /\ FirstIndex(data, result[i][1]) < FirstIndex(data, result[j][1])

\* [b, a, b, a] has been ranked [(b, 2), (a, 2)].
C3_Witness ==
    /\ pc = "ranked"
    /\ data = << <<<<"B">>, ":grin:">>, <<<<"A">>, ":grin:">>,
                 <<<<"B">>, ":grin:">>, <<<<"A">>, ":grin:">> >>
    /\ result = << << <<<<"B">>, ":grin:">>, 2 >>, << <<<<"A">>, ":grin:">>, 2 >> >>

\* The word filter as the contract states it.
WordFilterPasses(w) ==
    /\ Len(w) > 1
    /\ isalnum(w)
    /\ ~ isnumeric(w)
    /\ lower(w) \notin stop_words

\* C4: a token is counted if and only if it passes the Word Filter, and under its
\* lower-cased form, in the word ranking and in the (sender, word) pair ranking
\* alike.
C4_WordsCountedLowerCased ==
    pc = "returned" =>
        LET words == [k \in 1..Len(data) |-> data[k][2]]
            passing == {k \in 1..Len(data) : WordFilterPasses(words[k])}
        IN  /\ TableKeys(result.words) = {lower(words[k]) : k \in passing}
            /\ \A key \in TableKeys(result.words) :
                  TableCount(result.words, key)
                    = Cardinality({k \in passing : lower(words[k]) = key})
            /\ TableKeys(result.fav_word_ranking)
                 = {<<data[k][1], lower(words[k])>> : k \in passing}
            /\ \A key \in TableKeys(result.fav_word_ranking) :
                  TableCount(result.fav_word_ranking, key)
                    = Cardinality({k \in passing : <<data[k][1], lower(words[k])>> = key})

\* C5: reduce_fav_item of a ranked pair table is a subsequence of it, with exactly
\* one entry per sender of the table: the sender's first entry, whose count is
\* the largest of the sender's pairings.
C5_FavoritesFirstPerSender ==
    pc = "returned" =>
        /\ \A k \in 1..Len(result) : result[k] \in Range(data)
        /\ \A i, j \in 1..Len(result) :
              i < j => FirstIndex(data, result[i]) < FirstIndex(data, result[j])
        /\ \A k \in 1..Len(data) :
              Cardinality({j \in 1..Len(result) : result[j][1][1] = data[k][1][1]}) = 1
        /\ \A j \in 1..Len(result) : \A k \in 1..Len(data) :
              data[k][1][1] = result[j][1][1]
                => FirstIndex(data, result[j]) <= k /\ result[j][2] >= data[k][2]

\* A sender with two pairings of different counts and a second sender: one
\* favourite each was kept.
C5_Witness ==
    /\ pc = "returned"
    /\ Len(data) = 3
    /\ Len(result) = 2
    /\ \E i, j \in 1..Len(data) :
          data[i][1][1] = data[j][1][1] /\ data[i][2] > data[j][2]

\* The level of a tick.
Level(tick) ==
    CASE tick = "red" -> "level 4" [] tick = "orange" -> "level 3"
      [] tick = "green" -> "level 2" [] tick = "light_grey" -> "level 1"
      [] tick = "white" -> "no data"

MaxVal(d) == IF DOMAIN d = {} THEN 0
             ELSE CHOOSE m \in {d[k] : k \in DOMAIN d} : \A k \in DOMAIN d : d[k] <= m

\* C6: each of the 168 cells is "no data" when absent, else level 4 above 75% of
\* maxVal, level 3 above 50%, level 2 above 25%, else level 1, strictly: a count
\* on a threshold falls in the lower level.
C6_HeatmapLevels ==
    pc = "returned" =>
        /\ Len(result) * Len(result[1]) = 168
        /\ \A h \in 1..Len(result) : \A d \in 1..Len(result[h]) :
              LET cell == <<days[d], hours[h]>> IN
              Level(result[h][d]) =
                 IF cell \notin DOMAIN data THEN "no data"
                 ELSE IF 100 * data[cell] > 75 * MaxVal(data) THEN "level 4"
                 ELSE IF 100 * data[cell] > 50 * MaxVal(data) THEN "level 3"
                 ELSE IF 100 * data[cell] > 25 * MaxVal(data) THEN "level 2"
                 ELSE "level 1"

\* maxVal 10 and a cell of count 5, rendered at level 2.
C6_Witness ==
    /\ pc = "returned"
    /\ DOMAIN data = Cells
    /\ data[<<"Monday", "00">>] = 10
    /\ data[<<"Wednesday", "09">>] = 5
    /\ Level(result[10][3]) = "level 2"
    /\ Level(result[1][2]) = "no data"

\* C7: every bar of a non-empty table is floor(count * 50 / max) cells, max the
\* largest count of the table, so the largest entry gets 50 cells and every bar
\* 0 .. 50; an empty table prints "Empty data" alone; nothing divides by zero.
C7_BarLengthProportional ==
    pc = "returned" =>
        IF data = <<>> THEN result = << <<"Empty data">> >>
        ELSE LET max == SeqMax([k \in 1..Len(data) |-> data[k][2]]) IN
             /\ Len(result) = Len(data)
             /\ \A k \in 1..Len(data) :
                   /\ result[k][1] = "bar"
                   /\ result[k][3] = (data[k][2] * BarLength) \div max
                   /\ result[k][3] \in 0..BarLength
                   /\ data[k][2] = max => result[k][3] = BarLength

\* The sections main renders as bar charts, with the table of each.
BarSections == {"senders", "domains", "emojis", "fav_emoji", "words", "fav_word"}

SectionTable(section) ==
    CASE section = "senders" -> chat_counter.senders
      [] section = "domains" -> chat_counter.domains
      [] section = "emojis" -> chat_counter.emojis
      [] section = "fav_emoji" -> chat_counter.fav_emoji
      [] section = "words" -> chat_counter.words
      [] section = "fav_word" -> chat_counter.fav_word

Printed(section, kind) == SelectSeq(stdout, LAMBDA l : l[1] = section /\ l[2] = kind)

RECURSIVE SumBars(_)
SumBars(bars) == IF bars = <<>> THEN 0 ELSE bars[1][5] + SumBars(Tail(bars))

OtherLineAsStated(section) ==
    LET table == SectionTable(section)
        others == Printed(section, "Other")
    IN  IF Len(table) > args.size
        THEN /\ Len(others) = 1
             /\ others[1][3] = Len(table) - args.size
             /\ SumBars(Printed(section, "bar")) + others[1][4] = SumCounts(table)
        ELSE others = <<>>

\* C8: every table rendered as a bar chart with more than N entries gets exactly
\* one "Other" line with the number of entries beyond the first N and the sum of
\* their counts (bars plus "Other" make the table's total); a table of at most N
\* entries gets none.
C8_OtherLineForEveryChart ==
    pc = "done" =>
        \A section \in BarSections :
            (\E k \in 1..Len(stdout) : stdout[k][1] = section) => OtherLineAsStated(section)

\* C9: the counts of a table sum to the size of what was ranked: the list itself
\* for senders, domains and emojis, the tokens passing the Word Filter for the
\* words, the aggregated timestamps for the activity table.
C9_CountsConserved ==
    [][(pc = "reduce" /\ pc' = "report") =>
         /\ SumCounts(chat_counter'.senders) = Len(chat_counter.senders)
         /\ SumCounts(chat_counter'.domains) = Len(chat_counter.domains)
         /\ SumCounts(chat_counter'.emojis) = Len(chat_counter.emojis)
         /\ SumCounts(chat_counter'.words)
              = Cardinality({k \in 1..Len(chat_counter.words) :
                               WordFilterPasses(chat_counter.words[k])})
         /\ SumCounts(chat_counter'.timestamps) = Len(chat_counter.timestamps)]_vars

\* Four words were reduced, of which only Hi and hi were counted, as hi.
C9_Witness ==
    /\ pc = "report"
    /\ stop_words = {}
    /\ chat_counter.words = << <<hi, 2>> >>

\* C10: in the forward pass a record the Date Filter excludes changes nothing of
\* chat_counter, a record it passes is aggregated (sender and pairs only under a
\* sender, the rest regardless), and there are never more (sender, word) pairs
\* than words nor more (sender, emoji) pairs than emojis.
C10_AggregationFrame ==
    /\ [][LineRead =>
            IF pc' = "TypeError" \/ before_start(previous_line') \/ after_end(previous_line')
            THEN chat_counter' = chat_counter
            ELSE Aggregated(chat_counter, chat_counter', previous_line')]_vars
    /\ [](pc \in {"loop", "reduce", "TypeError"} =>
            /\ Len(chat_counter.fav_word) <= Len(chat_counter.words)
            /\ Len(chat_counter.fav_emoji) <= Len(chat_counter.emojis))

\* A record without a sender has added its word and emoji after one with a sender.
C10_Witness ==
    /\ pc = "loop"
    /\ lines = 0
    /\ Len(chat_counter.fav_word) = 1
    /\ Len(chat_counter.words) = 2
    /\ Len(chat_counter.fav_emoji) = 1
    /\ Len(chat_counter.emojis) = 2
    /\ previous_line.sender = None

====
